---------------------------- MODULE Spec2Model ----------------------------
(***************************************************************************)
(* A model of spyne.descriptor.MethodDescriptor (src/spyne/descriptor.py): *)
(* the descriptor's fields, its constructor, its three key derivations,    *)
(* the header setters, translate, is_out_bare and reset_function.          *)
(*                                                                         *)
(* Python strings are sequences of one-character strings, so that          *)
(* str.split, '%s' formatting and '.'.join are computed and not assumed.   *)
(* None (for a string-valued slot) is the one-element sequence <<"None">>, *)
(* which no character sequence equals.                                     *)
(***************************************************************************)
EXTENDS Naturals, Sequences, FiniteSets, TLC

VARIABLES
    phase,   \* "new": no descriptor yet; "live": constructed; "failed": __init__ raised
    ctor,    \* the arguments __init__ was called with
    md,      \* the fields of the MethodDescriptor instance
    call,    \* the last call: the operation and its arguments
    ret,     \* what the last call returned or raised
    rd,      \* concurrent readers: each reader's position, locals and result
    wr       \* the concurrent writer running reset_function: position and argument

vars == <<phase, ctor, md, call, ret, rd, wr>>

----------------------------------------------------------------------------
(* Strings *)

None == <<"None">>

s_empty == <<>>
s_Foo == <<"F", "o", "o">>
s_Bar == <<"B", "a", "r">>
s_Svc == <<"S", "v", "c">>
s_baz == <<"b", "a", "z">>
s_Foo_bar == <<"F", "o", "o", ".", "b", "a", "r">>
s_Foo_Foo_bar == <<"F", "o", "o", ".", "F", "o", "o", ".", "b", "a", "r">>
s_Foo_baz == <<"F", "o", "o", ".", "b", "a", "z">>
s_f == <<"f">>
s_g == <<"g">>
s_w == <<"w">>
s_op == <<"o", "p">>
s_m == <<"m">>
s_ns == <<"n", "s">>
s_sk == <<"s", "k">>
s_sfx == <<"_", "x">>
s_E == <<"E">>
s_F == <<"F">>
s_D == <<"D">>
s_en_US == <<"e", "n", "_", "U", "S">>
s_fr_FR == <<"f", "r", "_", "F", "R">>
s_nons == <<"_", "_", "n", "o", "n", "s", "_", "_">>
s_None == <<"N", "o", "n", "e">>

\* '%s' % v and '{}'.format(v): str(v); str(None) is 'None'
PyStr(v) == IF v = None THEN s_None ELSE v

\* bool(v) of a string-or-None value, as the `or` operator uses it
Truthy(v) == v # None /\ v # s_empty

\* s.split('.', 1)[0]
SplitFirst(s) ==
    LET dots == {i \in 1..Len(s) : s[i] = "."}
    IN  IF dots = {} THEN s
        ELSE SubSeq(s, 1, (CHOOSE i \in dots : \A j \in dots : i <= j) - 1)

\* '.'.join(parts)
RECURSIVE DotJoin(_)
DotJoin(parts) ==
    IF Len(parts) = 0 THEN s_empty
    ELSE IF Len(parts) = 1 THEN parts[1]
    ELSE parts[1] \o <<".">> \o DotJoin(Tail(parts))

EndsWith(s, t) ==
    Len(t) <= Len(s) /\ SubSeq(s, Len(s) - Len(t) + 1, Len(s)) = t

----------------------------------------------------------------------------
(* Body styles *)

BODY_STYLE_WRAPPED == "BODY_STYLE_WRAPPED"
BODY_STYLE_EMPTY == "BODY_STYLE_EMPTY"
BODY_STYLE_BARE == "BODY_STYLE_BARE"
BODY_STYLE_OUT_BARE == "BODY_STYLE_OUT_BARE"
BODY_STYLE_EMPTY_OUT_BARE == "BODY_STYLE_EMPTY_OUT_BARE"

BodyStyles ==
    {BODY_STYLE_WRAPPED, BODY_STYLE_EMPTY, BODY_STYLE_BARE,
     BODY_STYLE_OUT_BARE, BODY_STYLE_EMPTY_OUT_BARE}

----------------------------------------------------------------------------
(* Collaborators: classes and functions *)

\* spyne.const.xml_ns.DEFAULT_NS, the reserved default namespace: what a type's
\* namespace is until the framework assigns it a real one.
DEFAULT_NS == None

\* A class object. kind "Service": a ServiceBase subclass; "Model": a
\* ModelBase / ComplexModel subclass; "Other": any other class; "None": None.
Class(kind, module, cname, ns, type_name, sub_name, service_name, ikey) ==
    [kind |-> kind, module |-> module, cname |-> cname, ns |-> ns,
     type_name |-> type_name, sub_name |-> sub_name,
     service_name |-> service_name, ikey |-> ikey]

NoClass == Class("None", None, None, None, None, None, None, None)

ModelClass(module, cname, ns, type_name, sub_name) ==
    Class("Model", module, cname, ns, type_name, sub_name, None, None)

ServiceClass(module, cname, service_name, ikey) ==
    Class("Service", module, cname, None, None, None, service_name, ikey)

get_namespace(cls) == cls.ns
get_type_name(cls) == cls.type_name
get_internal_key(cls) == cls.ikey
get_service_name(cls) ==
    IF cls.service_name = None THEN cls.cname ELSE cls.service_name
is_service(cls) == cls.kind = "Service"

\* A function object: its identity and its declared name (__name__).
Fn(id, fname) == [id |-> id, fname |-> fname]
NoneFn == Fn("None", None)
get_function_name(fn) == fn.fname

fn_f == Fn("f", s_f)
fn_g == Fn("g", s_g)
fn_w == Fn("w", s_w)

\* Input messages
MsgA == ModelClass(s_m, s_baz, DEFAULT_NS, s_baz, None)
MsgB == ModelClass(s_m, s_baz, s_ns, s_baz, s_Foo_bar)
MsgC == ModelClass(s_m, s_Foo, s_ns, s_Foo_bar, None)
MsgD == ModelClass(s_m, s_Foo, DEFAULT_NS, s_Foo_bar, s_baz)

\* Owning classes
ClsFoo == ModelClass(s_m, s_Foo, None, s_Foo, None)
ClsBar == ModelClass(s_m, s_Bar, s_ns, s_Foo, None)
ClsBaz == ModelClass(s_ns, s_Foo, s_empty, s_Bar, None)
SvcA == ServiceClass(s_m, s_Svc, None, s_sk)
SvcB == ServiceClass(s_ns, s_Svc, s_Foo, s_sk)

----------------------------------------------------------------------------
(* Header values *)

\* What a caller can assign to in_header / out_header: None, a class, a
\* tuple, a list or a string. cls names the class, items the members.
Hdr(kind, cls, items) == [kind |-> kind, cls |-> cls, items |-> items]
HNone == Hdr("None", "-", <<>>)
HClass(c) == Hdr("Class", c, <<>>)
HTuple(items) == Hdr("Tuple", "-", items)
HList(items) == Hdr("List", "-", items)
HStr == Hdr("Str", "-", <<>>)

\* The subclasses of spyne.model._base.ModelBase among the classes used
ModelBaseSubclasses == {"M1", "M2"}

\* try: issubclass(v, ModelBase) except TypeError: False
is_model(v) == IF v.kind = "Class" THEN v.cls \in ModelBaseSubclasses ELSE FALSE

----------------------------------------------------------------------------
(* Translations: None or a dict *)

Dict(m) == [isNone |-> FALSE, map |-> m]
NoDict == [isNone |-> TRUE, map |-> [k \in {} |-> s_empty]]
dict_get(m, k, d) == IF k \in DOMAIN m THEN m[k] ELSE d

----------------------------------------------------------------------------
(* Results *)

Return(v) == [exc |-> "None", val |-> v]
Raise(e) == [exc |-> e, val |-> None]
Updated(self) == [exc |-> "None", self |-> self]
Failed(e, self) == [exc |-> e, self |-> self]

----------------------------------------------------------------------------
(* MethodDescriptor *)

\* The instance before __init__ has assigned anything
Blank ==
    [real_function |-> NoneFn, function |-> NoneFn, operation_name |-> None,
     internal_key_suffix |-> None, in_message |-> NoClass, name |-> None,
     in_header |-> HNone, out_header |-> HNone,
     body_style |-> BODY_STYLE_WRAPPED, service_class |-> NoClass,
     parent_class |-> NoClass, default_on_null |-> None,
     translations |-> NoDict]

\* A reset_function that rebinds the live function and forgets to capture
reset_function_live_only(self, val) ==
    [self EXCEPT !.function = IF val # NoneFn THEN val ELSE self.real_function]

\* reset_function, lines 258-259: if val != None: self.__real_function = val
reset_capture(self, val) ==
    IF val # NoneFn THEN [self EXCEPT !.real_function = val] ELSE self

\* reset_function, line 260: self.function = self.__real_function
reset_assign(self) == [self EXCEPT !.function = self.real_function]

\* def reset_function(self, val=None)
reset_function(self, val) == reset_assign(reset_capture(self, val))

\* @in_header.setter
set_in_header(self, v) ==
    LET h == IF is_model(v) THEN HTuple(<<v.cls>>) ELSE v
    IN  IF h.kind = "None" \/ h.kind = "Tuple"
        THEN Updated([self EXCEPT !.in_header = h])
        ELSE Failed("AssertionError", self)

\* An out_header setter that asserts before it wraps a single type
set_out_header_assert_first(self, v) ==
    IF v.kind = "None" \/ v.kind = "Tuple"
    THEN Updated([self EXCEPT !.out_header = v])
    ELSE Failed("AssertionError", self)

\* @out_header.setter
set_out_header(self, v) ==
    LET h == IF is_model(v) THEN HTuple(<<v.cls>>) ELSE v
    IN  IF h.kind = "None" \/ h.kind = "Tuple"
        THEN Updated([self EXCEPT !.out_header = h])
        ELSE Failed("AssertionError", self)

\* @property in_header / out_header
get_in_header(self) == self.in_header
get_out_header(self) == self.out_header

\* A derivation that takes the sub-name whatever the body style
derive_name_any_style(in_message, body_style) ==
    IF in_message.sub_name = None THEN get_type_name(in_message)
    ELSE in_message.sub_name

\* __init__: lines 67-75, the derivation of name
derive_name(in_message, body_style) ==
    LET n1 == IF body_style = BODY_STYLE_BARE THEN in_message.sub_name ELSE None
    IN  IF n1 = None THEN get_type_name(in_message) ELSE n1

\* A check that tests parent_class the wrong way round
check_default_on_null_inverted(default_on_null, parent_class) ==
    IF default_on_null # None /\ parent_class # NoClass
    THEN "LogicError" ELSE "None"

\* __init__: lines 155-157
check_default_on_null(default_on_null, parent_class) ==
    IF default_on_null # None /\ parent_class = NoClass
    THEN "LogicError" ELSE "None"

\* def __init__(self, function, in_message, ..., default_on_null), with a the
\* record of its arguments. The statements run in the order of the source,
\* so that a bad in_header raises before a bad default_on_null does.
init(a) ==
    LET s0 == [Blank EXCEPT !.real_function = a.function]
        s1 == reset_function(s0, NoneFn)
        s2 == [s1 EXCEPT !.operation_name = a.operation_name,
                         !.internal_key_suffix = a.internal_key_suffix,
                         !.in_message = a.in_message,
                         !.name = derive_name(a.in_message, a.body_style)]
        h1 == set_in_header(s2, a.in_header)
        h2 == set_out_header(h1.self, a.out_header)
        s3 == [h2.self EXCEPT !.body_style = a.body_style,
                              !.service_class = a.service_class,
                              !.parent_class = a.parent_class,
                              !.default_on_null = a.default_on_null]
        e3 == check_default_on_null(a.default_on_null, a.parent_class)
    IN  IF h1.exc # "None" THEN Failed(h1.exc, Blank)
        ELSE IF h2.exc # "None" THEN Failed(h2.exc, Blank)
        ELSE IF e3 # "None" THEN Failed(e3, Blank)
        ELSE Updated([s3 EXCEPT !.translations = a.translations])

\* A translate without the en_US fallback for a missing locale
translate_no_fallback(self, locale, default) ==
    IF ~self.translations.isNone
    THEN dict_get(self.translations.map, locale, default)
    ELSE default

\* def translate(self, locale, default)
translate(self, locale, default) ==
    LET l == IF locale = None THEN s_en_US ELSE locale
    IN  IF ~self.translations.isNone
        THEN dict_get(self.translations.map, l, default)
        ELSE default

\* A key built from the descriptor's name instead of the type name
key_from_name(self) ==
    IF get_namespace(self.in_message) = DEFAULT_NS
    THEN Raise("AssertionError")
    ELSE Return(<<"{">> \o PyStr(get_namespace(self.in_message)) \o <<"}">>
                \o PyStr(self.name))

\* @property key
key(self) ==
    IF get_namespace(self.in_message) = DEFAULT_NS
    THEN Raise("AssertionError")
    ELSE Return(<<"{">> \o PyStr(get_namespace(self.in_message)) \o <<"}">>
                \o PyStr(get_type_name(self.in_message)))

\* @property internal_key
internal_key(self) ==
    LET sc == self.service_class
        pc == self.parent_class
        mn == pc.module
        on == pc.cname
        dn == self.name
    IN  IF sc # NoClass
        THEN <<"{">> \o PyStr(get_internal_key(sc)) \o <<"}">>
             \o PyStr(get_function_name(self.function))
             \o PyStr(self.internal_key_suffix)
        ELSE IF pc # NoClass
        THEN IF SplitFirst(dn) # on
             THEN <<"{">> \o PyStr(mn) \o <<"}">> \o PyStr(on) \o <<".">> \o PyStr(dn)
             ELSE <<"{">> \o PyStr(mn) \o <<"}">> \o PyStr(dn)
        ELSE None

\* @staticmethod get_owner_name(cls)
get_owner_name(cls) ==
    IF is_service(cls) THEN get_service_name(cls) ELSE cls.cname

\* A gen_interface_key that names the stored parent class, as internal_key
\* does, instead of the class it is given
gen_interface_key_stored(self, cls) ==
    IF is_service(cls)
    THEN PyStr(cls.module) \o <<".">> \o PyStr(get_owner_name(cls)) \o <<".">>
         \o PyStr(self.name)
    ELSE LET pc == IF self.parent_class # NoClass THEN self.parent_class ELSE cls
             mn == IF Truthy(get_namespace(pc)) THEN get_namespace(pc) ELSE s_nons
             on == get_type_name(pc)
             dn == self.name
         IN  IF SplitFirst(dn) # on
             THEN DotJoin(<<mn, on, dn>>)
             ELSE DotJoin(<<mn, dn>>)

\* def gen_interface_key(self, cls)
gen_interface_key(self, cls) ==
    IF is_service(cls)
    THEN PyStr(cls.module) \o <<".">> \o PyStr(get_owner_name(cls)) \o <<".">>
         \o PyStr(self.name)
    ELSE LET mn == IF Truthy(get_namespace(cls)) THEN get_namespace(cls) ELSE s_nons
             on == get_type_name(cls)
             dn == self.name
         IN  IF SplitFirst(dn) # on
             THEN DotJoin(<<mn, on, dn>>)
             ELSE DotJoin(<<mn, dn>>)

\* An is_out_bare that leaves BODY_STYLE_EMPTY out of its tuple
is_out_bare_without_empty(self) ==
    self.body_style \in {BODY_STYLE_EMPTY_OUT_BARE, BODY_STYLE_BARE,
                         BODY_STYLE_OUT_BARE}

\* def is_out_bare(self)
is_out_bare(self) ==
    self.body_style \in {BODY_STYLE_EMPTY_OUT_BARE, BODY_STYLE_EMPTY,
                         BODY_STYLE_BARE, BODY_STYLE_OUT_BARE}

----------------------------------------------------------------------------
(* Calls and their results *)

NoCall ==
    [op |-> "none", fn |-> NoneFn, cls |-> NoClass, hdr |-> HNone,
     locale |-> None, default |-> None]
Call(op) == [NoCall EXCEPT !.op = op]

NoRet == [exc |-> "None", val |-> None, flag |-> FALSE, hdr |-> HNone]
RetStr(r) == [NoRet EXCEPT !.exc = r.exc, !.val = r.val]
RetFlag(b) == [NoRet EXCEPT !.flag = b]
RetHdr(h) == [NoRet EXCEPT !.hdr = h]
RetExc(e) == [NoRet EXCEPT !.exc = e]

\* The arguments the decorator passes when the user gives none
DefaultArgs ==
    [function |-> fn_f, in_message |-> MsgB, in_header |-> HNone,
     out_header |-> HNone, parent_class |-> NoClass,
     body_style |-> BODY_STYLE_WRAPPED, operation_name |-> s_op,
     translations |-> NoDict, service_class |-> NoClass,
     internal_key_suffix |-> s_empty, default_on_null |-> None]

NoReaders == [r \in {} |-> 0]
NoWriter == [pc |-> "idle", val |-> NoneFn]

Init ==
    /\ phase = "new"
    /\ ctor = DefaultArgs
    /\ md = Blank
    /\ call = NoCall
    /\ ret = NoRet
    /\ rd = NoReaders
    /\ wr = NoWriter

----------------------------------------------------------------------------
(* Sequential operations on one descriptor *)

\* MethodDescriptor(...)
Construct(a) ==
    /\ phase = "new"
    /\ LET r == init(a)
       IN  /\ phase' = IF r.exc = "None" THEN "live" ELSE "failed"
           /\ md' = r.self
           /\ ret' = RetExc(r.exc)
    /\ ctor' = a
    /\ call' = Call("__init__")
    /\ UNCHANGED <<rd, wr>>

\* md.reset_function(val)
ResetFunction(val) ==
    /\ phase = "live"
    /\ md' = reset_function(md, val)
    /\ call' = [Call("reset_function") EXCEPT !.fn = val]
    /\ ret' = NoRet
    /\ UNCHANGED <<phase, ctor, rd, wr>>

\* md.function = fn, by a caller that swaps the live callable
Rebind(fn) ==
    /\ phase = "live"
    /\ md' = [md EXCEPT !.function = fn]
    /\ call' = [Call("rebind") EXCEPT !.fn = fn]
    /\ ret' = NoRet
    /\ UNCHANGED <<phase, ctor, rd, wr>>

\* The framework gives the input message its namespace after registration
AssignNamespace(ns) ==
    /\ phase = "live"
    /\ get_namespace(md.in_message) = DEFAULT_NS
    /\ md' = [md EXCEPT !.in_message.ns = ns]
    /\ call' = Call("assign_namespace")
    /\ ret' = NoRet
    /\ UNCHANGED <<phase, ctor, rd, wr>>

\* md.in_header = v
SetInHeader(v) ==
    /\ phase = "live"
    /\ LET r == set_in_header(md, v)
       IN  md' = r.self /\ ret' = RetExc(r.exc)
    /\ call' = [Call("set_in_header") EXCEPT !.hdr = v]
    /\ UNCHANGED <<phase, ctor, rd, wr>>

\* md.out_header = v
SetOutHeader(v) ==
    /\ phase = "live"
    /\ LET r == set_out_header(md, v)
       IN  md' = r.self /\ ret' = RetExc(r.exc)
    /\ call' = [Call("set_out_header") EXCEPT !.hdr = v]
    /\ UNCHANGED <<phase, ctor, rd, wr>>

\* md.in_header
GetInHeader ==
    /\ phase = "live"
    /\ call' = Call("get_in_header")
    /\ ret' = RetHdr(get_in_header(md))
    /\ UNCHANGED <<phase, ctor, md, rd, wr>>

\* md.out_header
GetOutHeader ==
    /\ phase = "live"
    /\ call' = Call("get_out_header")
    /\ ret' = RetHdr(get_out_header(md))
    /\ UNCHANGED <<phase, ctor, md, rd, wr>>

\* md.key
Key ==
    /\ phase = "live"
    /\ call' = Call("key")
    /\ ret' = RetStr(key(md))
    /\ UNCHANGED <<phase, ctor, md, rd, wr>>

\* md.internal_key
InternalKey ==
    /\ phase = "live"
    /\ call' = Call("internal_key")
    /\ ret' = RetStr(Return(internal_key(md)))
    /\ UNCHANGED <<phase, ctor, md, rd, wr>>

\* md.gen_interface_key(cls)
GenInterfaceKey(cls) ==
    /\ phase = "live"
    /\ call' = [Call("gen_interface_key") EXCEPT !.cls = cls]
    /\ ret' = RetStr(Return(gen_interface_key(md, cls)))
    /\ UNCHANGED <<phase, ctor, md, rd, wr>>

\* md.is_out_bare()
IsOutBare ==
    /\ phase = "live"
    /\ call' = Call("is_out_bare")
    /\ ret' = RetFlag(is_out_bare(md))
    /\ UNCHANGED <<phase, ctor, md, rd, wr>>

\* md.translate(locale, default)
Translate(locale, default) ==
    /\ phase = "live"
    /\ call' = [Call("translate") EXCEPT !.locale = locale, !.default = default]
    /\ ret' = RetStr(Return(translate(md, locale, default)))
    /\ UNCHANGED <<phase, ctor, md, rd, wr>>

----------------------------------------------------------------------------
(* Inputs *)

Messages == {MsgA, MsgB, MsgC, MsgD}
Owners == {ClsFoo, ClsBar, ClsBaz, SvcA, SvcB}
Replacements == {NoneFn, fn_g}
Wrappers == {fn_w}
Namespaces == {s_ns}
FewHeaders == {HNone, HClass("M1"), HList(<<"M1">>)}

\* Descriptors that differ in what their name and key derive from
NameArgs ==
    {[DefaultArgs EXCEPT !.in_message = m, !.body_style = b] :
        m \in Messages, b \in BodyStyles}

NameNext ==
    \/ \E a \in NameArgs : Construct(a)
    \/ \E val \in Replacements : ResetFunction(val)
    \/ \E fn \in Wrappers : Rebind(fn)
    \/ \E ns \in Namespaces : AssignNamespace(ns)
    \/ \E v \in FewHeaders : SetInHeader(v)
    \/ \E v \in FewHeaders : SetOutHeader(v)
    \/ Key
    \/ IsOutBare

SpecName == Init /\ [][NameNext]_vars

\* Descriptors that differ in what their internal key derives from
KeyArgs ==
    {[DefaultArgs EXCEPT !.in_message = m, !.body_style = b,
                         !.service_class = sc, !.parent_class = pc,
                         !.internal_key_suffix = x] :
        m \in {MsgB, MsgC},
        b \in {BODY_STYLE_WRAPPED, BODY_STYLE_BARE},
        sc \in {NoClass, SvcA}, pc \in {NoClass, ClsFoo, ClsBar},
        x \in {s_empty, s_sfx}}

KeysNext ==
    \/ \E a \in KeyArgs : Construct(a)
    \/ \E val \in Replacements : ResetFunction(val)
    \/ \E fn \in Wrappers : Rebind(fn)
    \/ InternalKey
    \/ \E cls \in Owners : GenInterfaceKey(cls)

SpecKeys == Init /\ [][KeysNext]_vars

\* The longest tuple a caller assigns to a header
MaxHeaderLen == 1

RECURSIVE TuplesOver(_, _)
TuplesOver(S, n) ==
    IF n = 0 THEN {<<>>}
    ELSE TuplesOver(S, n - 1)
         \cup {Append(t, c) : t \in {u \in TuplesOver(S, n - 1) : Len(u) = n - 1},
                              c \in S}

HeaderValues ==
    {HNone, HClass("M1"), HClass("M2"), HClass("int"), HList(<<"M1">>), HStr}
    \cup {HTuple(t) : t \in TuplesOver(ModelBaseSubclasses, MaxHeaderLen)}

TranslationValues ==
    {NoDict, Dict(s_en_US :> s_E), Dict(s_fr_FR :> s_F)}
Locales == {None, s_en_US, s_fr_FR}
Defaults == {s_D}
DefaultOnNullValues == {None, <<"0">>}

\* Descriptors that differ in their headers, translations and default_on_null
HdrArgs ==
    {[DefaultArgs EXCEPT !.in_header = i, !.out_header = o,
                         !.parent_class = pc, !.default_on_null = d,
                         !.translations = t] :
        i \in {HNone, HClass("M1"), HList(<<"M1">>)},
        o \in {HNone, HTuple(<<"M2">>), HStr},
        pc \in {NoClass, ClsFoo}, d \in DefaultOnNullValues,
        t \in TranslationValues}

HdrNext ==
    \/ \E a \in HdrArgs : Construct(a)
    \/ \E v \in HeaderValues : SetInHeader(v)
    \/ \E v \in HeaderValues : SetOutHeader(v)
    \/ GetInHeader
    \/ GetOutHeader
    \/ \E l \in Locales, d \in Defaults : Translate(l, d)

SpecHdr == Init /\ [][HdrNext]_vars

----------------------------------------------------------------------------
(* Properties *)

Braced(a, b) == <<"{">> \o a \o <<"}">> \o b

\* C1: reading key fails with an assertion when the input message's
\* namespace is DEFAULT_NS, and otherwise returns "{" + namespace + "}" +
\* typeName of the input message as it is at the read (the type name, not
\* the descriptor's name).
C1_KeyContract ==
    call.op = "key" =>
        IF md.in_message.ns = DEFAULT_NS
        THEN ret.exc = "AssertionError"
        ELSE /\ ret.exc = "None"
             /\ ret.val = Braced(md.in_message.ns, md.in_message.type_name)

\* key was read of a BARE descriptor whose name is the sub-name, after its
\* input message was given a namespace
C1_Witness ==
    /\ call.op = "key"
    /\ ret.exc = "None"
    /\ md.body_style = BODY_STYLE_BARE
    /\ md.name # md.in_message.type_name
    /\ ctor.in_message.ns = DEFAULT_NS
    /\ ret.val = Braced(s_ns, s_Foo_bar)

C8_IsOutBare ==
    /\ phase = "live" => md.body_style = ctor.body_style
    /\ call.op = "is_out_bare" =>
        /\ md.body_style = BODY_STYLE_WRAPPED => ret.flag = FALSE
        /\ md.body_style # BODY_STYLE_WRAPPED => ret.flag = TRUE

\* is_out_bare() was called on an EMPTY descriptor and returned true
C8_Witness ==
    /\ call.op = "is_out_bare"
    /\ md.body_style = BODY_STYLE_EMPTY
    /\ ret.flag = TRUE

\* C2, as stated: internal_key uses the declared name of the captured
\* original function, also after the live function reference is rebound.
C2_ExpectedInternalKey ==
    IF md.service_class # NoClass
    THEN Braced(md.service_class.ikey,
                md.real_function.fname \o md.internal_key_suffix)
    ELSE IF md.parent_class # NoClass
    THEN IF SplitFirst(md.name) # md.parent_class.cname
         THEN Braced(md.parent_class.module,
                     md.parent_class.cname \o <<".">> \o md.name)
         ELSE Braced(md.parent_class.module, md.name)
    ELSE None

C2_InternalKeyOriginalName ==
    call.op = "internal_key" => ret.exc = "None" /\ ret.val = C2_ExpectedInternalKey

\* C5: gen_interface_key(owningType) is module.ownerName.name for a service
\* and ns.typeName.name, or ns.name when name starts with the type name's
\* segment, for any other owner, with "__nons__" for an unset namespace; it
\* depends on the owner passed and on name only.
C5_ExpectedInterfaceKey(cls, name) ==
    IF cls.kind = "Service"
    THEN cls.module \o <<".">> \o get_service_name(cls) \o <<".">> \o name
    ELSE LET ns == IF cls.ns = None \/ cls.ns = s_empty THEN s_nons ELSE cls.ns
         IN  IF SplitFirst(name) = cls.type_name
             THEN ns \o <<".">> \o name
             ELSE ns \o <<".">> \o cls.type_name \o <<".">> \o name

C5_GenInterfaceKey ==
    call.op = "gen_interface_key" =>
        /\ ret.exc = "None"
        /\ ret.val = C5_ExpectedInterfaceKey(call.cls, md.name)
        /\ (call.cls.kind = "Model" /\ call.cls.type_name = s_Foo
            /\ md.name = s_Foo_bar) =>
                EndsWith(ret.val, s_Foo_bar) /\ ~EndsWith(ret.val, s_Foo_Foo_bar)
        /\ (call.cls.kind = "Model" /\ call.cls.type_name = s_Foo
            /\ md.name = s_baz) => EndsWith(ret.val, s_Foo_baz)

\* the key was generated for an owner other than the stored parent class,
\* whose type name is the first segment of name
C5_Witness ==
    /\ call.op = "gen_interface_key"
    /\ call.cls = ClsBar
    /\ md.parent_class = ClsFoo
    /\ md.name = s_Foo_bar
    /\ ret.val = s_ns \o <<".">> \o s_Foo_bar

\* C7: reset_function(replacement) sets the captured original and the live
\* function to the replacement; reset_function() sets the live function to
\* the captured original and leaves the original; the original changes only
\* at construction and at reset_function(replacement); after construction
\* and after every reset_function the live function is the original.
C7_Step ==
    /\ (call'.op = "reset_function" /\ call'.fn # NoneFn) =>
           md'.real_function = call'.fn /\ md'.function = call'.fn
    /\ (call'.op = "reset_function" /\ call'.fn = NoneFn) =>
           md'.real_function = md.real_function
           /\ md'.function = md.real_function
    /\ md'.real_function # md.real_function =>
           \/ call'.op = "__init__"
           \/ call'.op = "reset_function" /\ call'.fn # NoneFn
    /\ call'.op \in {"__init__", "reset_function"} /\ phase' = "live" =>
           md'.function = md'.real_function

C7_ResetFunction == [][C7_Step]_vars

\* reset_function() has restored a replaced original over a rebound function
C7_Witness ==
    /\ call.op = "reset_function"
    /\ call.fn = NoneFn
    /\ ctor.function = fn_f
    /\ md.real_function = fn_g
    /\ md.function = fn_g

\* C4: assigning v to in_header or out_header stores (v,) for a single
\* structured-type reference, None for None and a tuple unchanged; any other
\* v fails with an assertion and leaves the stored header; each header is
\* always None or a tuple, and assigning one header leaves the other.
C4_Effect(v, old, new, exc) ==
    IF v.kind = "Class" /\ v.cls \in ModelBaseSubclasses
    THEN exc = "None" /\ new = HTuple(<<v.cls>>)
    ELSE IF v.kind = "None" THEN exc = "None" /\ new = HNone
    ELSE IF v.kind = "Tuple" THEN exc = "None" /\ new = v
    ELSE exc = "AssertionError" /\ new = old

C4_Step ==
    /\ call'.op = "set_in_header" =>
        /\ C4_Effect(call'.hdr, md.in_header, md'.in_header, ret'.exc)
        /\ md'.out_header = md.out_header
        /\ call'.hdr = md.in_header =>
               ret'.exc = "None" /\ md'.in_header = md.in_header
    /\ call'.op = "set_out_header" =>
        /\ C4_Effect(call'.hdr, md.out_header, md'.out_header, ret'.exc)
        /\ md'.in_header = md.in_header
        /\ call'.hdr = md.out_header =>
               ret'.exc = "None" /\ md'.out_header = md.out_header

C4_Shape ==
    /\ md.in_header.kind \in {"None", "Tuple"}
    /\ md.out_header.kind \in {"None", "Tuple"}
    /\ call.op = "get_in_header" => ret.hdr = md.in_header
    /\ call.op = "get_out_header" => ret.hdr = md.out_header

C4_HeaderNormalization == [] C4_Shape /\ [][C4_Step]_vars

\* out_header was assigned a single type and holds the one-element tuple,
\* while in_header still holds the tuple it held
C4_Witness ==
    /\ call.op = "set_out_header"
    /\ call.hdr = HClass("M1")
    /\ md.out_header = HTuple(<<"M1">>)
    /\ md.in_header = HTuple(<<"M2">>)
    /\ ctor.out_header = HNone

C6_HeaderValid(v) ==
    \/ v.kind = "None"
    \/ v.kind = "Tuple"
    \/ v.kind = "Class" /\ v.cls \in ModelBaseSubclasses

C6_HeadersValid == C6_HeaderValid(ctor.in_header) /\ C6_HeaderValid(ctor.out_header)

C6_Misconfigured == ctor.default_on_null # None /\ ctor.parent_class = NoClass

\* C6, as stated: every construction with default_on_null set and
\* parent_class absent fails with the configuration (logic) error; the other
\* constructions succeed when the headers are valid.
C6_AsStated ==
    phase # "new" =>
        /\ C6_Misconfigured => phase = "failed" /\ ret.exc = "LogicError"
        /\ ~C6_Misconfigured /\ C6_HeadersValid => phase = "live"
        /\ phase = "live" =>
               md.default_on_null = None \/ md.parent_class # NoClass

\* C6, amended: a construction with default_on_null set and parent_class
\* absent yields no descriptor: it fails with the configuration (logic) error
\* when the headers are valid, and with the header's assertion, raised
\* first, when a header is not; the other constructions succeed when the
\* headers are valid; a constructed descriptor has default_on_null absent or
\* parent_class set.
C6_Construction ==
    phase # "new" =>
        /\ C6_Misconfigured /\ C6_HeadersValid =>
               phase = "failed" /\ ret.exc = "LogicError" /\ md = Blank
        /\ C6_Misconfigured /\ ~C6_HeadersValid =>
               phase = "failed" /\ ret.exc = "AssertionError" /\ md = Blank
        /\ ~C6_Misconfigured /\ C6_HeadersValid => phase = "live"
        /\ phase = "live" =>
               md.default_on_null = None \/ md.parent_class # NoClass

\* a construction with valid headers, default_on_null set and no parent
\* class has failed with the logic error
C6_Witness ==
    /\ phase = "failed"
    /\ ret.exc = "LogicError"
    /\ ctor.in_header = HClass("M1")
    /\ ctor.default_on_null # None
    /\ ctor.parent_class = NoClass

\* C9: translate(locale, default) never fails; it returns the translation
\* registered for locale, with "en_US" for an absent locale, and default
\* when there are no translations or none for the locale.
C9_Translate ==
    call.op = "translate" =>
        LET l == IF call.locale = None THEN s_en_US ELSE call.locale
            t == md.translations
        IN  /\ ret.exc = "None"
            /\ (~t.isNone /\ l \in DOMAIN t.map) => ret.val = t.map[l]
            /\ (t.isNone \/ l \notin DOMAIN t.map) => ret.val = call.default
            /\ (t = Dict(s_en_US :> s_E) /\ call.locale = None
                /\ call.default = s_D) => ret.val = s_E
            /\ (t = Dict(s_en_US :> s_E) /\ call.locale = s_fr_FR
                /\ call.default = s_D) => ret.val = s_D

\* translate(None, "D") has returned "E" from {"en_US": "E"}
C9_Witness ==
    /\ call.op = "translate"
    /\ md.translations = Dict(s_en_US :> s_E)
    /\ call.locale = None
    /\ call.default = s_D
    /\ ret.val = s_E

----------------------------------------------------------------------------
(* Concurrent use of a registered descriptor: request handlers read it     *)
(* while one other thread may reset or rebind the function or assign a     *)
(* header. A read takes two steps where the source reads the descriptor    *)
(* twice; reset_function takes one step for each of its two assignments.   *)

Readers == {"r1", "r2"}

ReadCalls ==
    {Call("key"), Call("internal_key"),
     [Call("gen_interface_key") EXCEPT !.cls = ClsBar],
     [Call("translate") EXCEPT !.locale = None, !.default = s_D],
     Call("is_out_bare"), Call("get_in_header"), Call("get_out_header")}

\* What the call c returns when it runs on the descriptor self
Result(c, self) ==
    CASE c.op = "key" -> RetStr(key(self))
      [] c.op = "internal_key" -> RetStr(Return(internal_key(self)))
      [] c.op = "gen_interface_key" ->
            RetStr(Return(gen_interface_key(self, c.cls)))
      [] c.op = "translate" ->
            RetStr(Return(translate(self, c.locale, c.default)))
      [] c.op = "is_out_bare" -> RetFlag(is_out_bare(self))
      [] c.op = "get_in_header" -> RetHdr(get_in_header(self))
      [] c.op = "get_out_header" -> RetHdr(get_out_header(self))

\* The fields a read has loaded into locals when it is half way:
\* internal_key has read service_class (sc) and not yet function
FirstReads(op) == IF op = "internal_key" THEN {"service_class"} ELSE {}

\* The descriptor as a read sees it: its locals, and the fields as they are
View(op, snap, self) ==
    [f \in DOMAIN self |-> IF f \in FirstReads(op) THEN snap[f] ELSE self[f]]

IdleReader ==
    [pc |-> "idle", call |-> NoCall, snap |-> [f \in {} |-> 0],
     res |-> NoRet, exp |-> NoRet, clean |-> TRUE]

\* A write overlaps every read that is half way
Overlapped ==
    [r \in DOMAIN rd |->
        IF rd[r].pc = "mid" THEN [rd[r] EXCEPT !.clean = FALSE] ELSE rd[r]]

\* reader r starts the call c; exp is what c returns if it runs alone now
ReadBegin(r, c) ==
    /\ rd[r].pc # "mid"
    /\ rd' = [rd EXCEPT ![r] =
                [pc |-> "mid", call |-> c,
                 snap |-> [f \in FirstReads(c.op) |-> md[f]],
                 res |-> NoRet, exp |-> Result(c, md), clean |-> TRUE]]
    /\ UNCHANGED <<phase, ctor, md, call, ret, wr>>

\* A read that restores the live function as a side effect
ReadEnd_restoring(r) ==
    /\ rd[r].pc = "mid"
    /\ rd' = [rd EXCEPT ![r].pc = "done",
                        ![r].res = Result(rd[r].call,
                                          View(rd[r].call.op, rd[r].snap, md))]
    /\ md' = reset_assign(md)
    /\ UNCHANGED <<phase, ctor, call, ret, wr>>

\* reader r finishes its call and returns
ReadEnd(r) ==
    /\ rd[r].pc = "mid"
    /\ rd' = [rd EXCEPT ![r].pc = "done",
                        ![r].res = Result(rd[r].call,
                                          View(rd[r].call.op, rd[r].snap, md))]
    /\ UNCHANGED <<phase, ctor, md, call, ret, wr>>

\* the writer enters reset_function(val) and runs lines 258-259
ResetBegin(val) ==
    /\ wr.pc = "idle"
    /\ md' = reset_capture(md, val)
    /\ wr' = [pc |-> "reset", val |-> val]
    /\ rd' = Overlapped
    /\ UNCHANGED <<phase, ctor, call, ret>>

\* the writer runs line 260 and returns
ResetEnd ==
    /\ wr.pc = "reset"
    /\ md' = reset_assign(md)
    /\ wr' = NoWriter
    /\ rd' = Overlapped
    /\ UNCHANGED <<phase, ctor, call, ret>>

\* the writer rebinds the live function
WriterRebind(fn) ==
    /\ wr.pc = "idle"
    /\ md' = [md EXCEPT !.function = fn]
    /\ rd' = Overlapped
    /\ UNCHANGED <<phase, ctor, call, ret, wr>>

\* the writer assigns in_header
WriterSetInHeader(v) ==
    /\ wr.pc = "idle"
    /\ md' = set_in_header(md, v).self
    /\ rd' = Overlapped
    /\ UNCHANGED <<phase, ctor, call, ret, wr>>

\* The descriptors registered before the handlers start
ConcArgs ==
    {[DefaultArgs EXCEPT !.service_class = sc, !.parent_class = ClsFoo,
                         !.translations = Dict(s_en_US :> s_E)] :
        sc \in {NoClass, SvcA}}

ConcInit ==
    /\ phase = "live"
    /\ ctor \in ConcArgs
    /\ md = init(ctor).self
    /\ call = Call("__init__")
    /\ ret = NoRet
    /\ rd = [r \in Readers |-> IdleReader]
    /\ wr = NoWriter

ConcNext ==
    \/ \E r \in Readers, c \in ReadCalls : ReadBegin(r, c)
    \/ \E r \in Readers : ReadEnd(r)
    \/ \E val \in Replacements : ResetBegin(val)
    \/ ResetEnd
    \/ \E fn \in Wrappers : WriterRebind(fn)
    \/ \E v \in FewHeaders : WriterSetInHeader(v)

SpecConc == ConcInit /\ [][ConcNext]_vars

\* C10: the reads change no field of the descriptor, so a read that no
\* reset_function, rebinding or header assignment overlaps returns what it
\* returns when it runs alone, however the readers interleave.
C10_ReadsAgree ==
    \A r \in Readers :
        rd[r].pc = "done" /\ rd[r].clean => rd[r].res = rd[r].exp

C10_ReadStep ==
    (\E r \in Readers : rd'[r].pc # rd[r].pc) => md' = md

C10_ReadsDoNotInterfere == [] C10_ReadsAgree /\ [][C10_ReadStep]_vars

\* r1 has read the key undisturbed; the writer is between the two
\* assignments of reset_function(g), where the captured original and the
\* live function differ, and r2 has read internal_key from the live one
C10_Witness ==
    /\ rd["r1"].pc = "done" /\ rd["r1"].clean
    /\ rd["r1"].call.op = "key"
    /\ rd["r1"].res.val = Braced(s_ns, s_baz)
    /\ wr.pc = "reset"
    /\ md.real_function = fn_g
    /\ md.function = fn_f
    /\ rd["r2"].pc = "done" /\ ~rd["r2"].clean
    /\ rd["r2"].call.op = "internal_key"
    /\ rd["r2"].res.val = Braced(s_sk, s_f)

=============================================================================
